---- MODULE Spec2Model ----
(***************************************************************************)
(* Model of BackgroundRemovalAI (src/src/utils/backgroundRemoval.ts), of   *)
(* the App component (src/unnamed/part_000) and of the Photoroom client    *)
(* (src/unnamed/part_001).                                                 *)
(*                                                                         *)
(* An ImageData is a record [width, height, data]; data is the flat        *)
(* Uint8ClampedArray, a function on 0 .. width*height*4 - 1, four samples  *)
(* (R,G,B,A) per pixel, row-major.  Each private filter is an operator     *)
(* from ImageData to ImageData, computed with the index arithmetic of the  *)
(* source; each action applies one filter to the buffer in hand.           *)
(*                                                                         *)
(* Specifications, one per filter, each over that filter's inputs:         *)
(*   Spec        colorSegmentation                                         *)
(*   SpecMorph   morphologicalOperations, applied up to MaxCalls times     *)
(*   SpecRefine  refineEdges                                               *)
(*   SpecEdges   detectEdges                                               *)
(*   SpecSimple  the mask loop of processImageSimple                       *)
(* and two of the event-driven parts:                                      *)
(*   SpecProcess processImage and processImageSimple on one instance, with *)
(*               its canvas and the promises of the calls                  *)
(*   SpecApp     upload, 'Remove Background', reset and the awaits of      *)
(*               processImageWithPhotoroom                                 *)
(***************************************************************************)
EXTENDS Integers, Sequences, FiniteSets, TLC

VARIABLES
    imageData,   \* the ImageData handed to the filter called last (first: the decoded image)
    result,      \* the ImageData that call returned; NoImage before any call
    calls,       \* the filters called so far, in order
    canvas,      \* this.canvas of the BackgroundRemovalAI instance
    promises,    \* the processImage / processImageSimple calls made on the instance
    ui,          \* the state of the App component
    requests,    \* the runs of processImageWithPhotoroom that have not returned
    readers      \* the FileReaders of handleFileUpload that have not loaded

vars == <<imageData, result, calls, canvas, promises, ui, requests, readers>>

\* the state of the instance and of the App, which the filters do not touch
others == <<canvas, promises, ui, requests, readers>>

NoImage == [width |-> 0, height |-> 0, data |-> <<>>]

----------------------------------------------------------------------------
(* Bounds of the inputs.                                                   *)

MaxSegW == 3
MaxSegH == 3
MaxSegPixels == 9
MaxFullPixels == 6
MaxBoxW == 5
MaxBoxH == 5
MaxMaskW == 4
MaxMaskH == 4
MaxPatchW == 6
MaxPatchH == 6
MaxSpotW == 6
MaxSpotH == 6
MaxSpeckW == 7
MaxSpeckH == 7
MaxEdgeW == 3
MaxEdgeH == 3
MaxEdgePixels == 9
MaxSimpleW == 72
MaxSimpleH == 30
MaxCalls == 2

----------------------------------------------------------------------------
(* Pixel buffers.                                                          *)

Min2(a, b) == IF a < b THEN a ELSE b
Max2(a, b) == IF a > b THEN a ELSE b

\* new Uint8ClampedArray(n): n samples, all zero
ZeroSamples(n) == [i \in 0 .. n - 1 |-> 0]

\* new ImageData(samples, width, height)
NewImageData(samples, width, height) ==
    [width |-> width, height |-> height, data |-> samples]

\* the pixel numbers 0 .. width*height - 1 of a buffer
Pixels(img) == 0 .. img.width * img.height - 1

\* the image a canvas hands out for per-pixel colours pix[p] = <<r,g,b,a>>
Decode(width, height, pix) ==
    NewImageData([i \in 0 .. width * height * 4 - 1 |-> pix[i \div 4][(i % 4) + 1]],
                 width, height)

\* the loop ranges  for (y = m; y < height - m; y++) for (x = m; x < width - m; x++)
LoopPixels(width, height, m) ==
    {y * width + x : x \in m .. width - m - 1, y \in m .. height - m - 1}

Red(img, p)   == img.data[p * 4]
Green(img, p) == img.data[p * 4 + 1]
Blue(img, p)  == img.data[p * 4 + 2]
Alpha(img, p) == img.data[p * 4 + 3]

----------------------------------------------------------------------------
(* detectEdges.                                                            *)

sobelX == <<-1, 0, 1, -2, 0, 2, -1, 0, 1>>
sobelY == <<-1, -2, -1, 0, 0, 0, 1, 2, 1>>

\* three times gray = (data[k] + data[k + 1] + data[k + 2]) / 3 of the pixel at
\* kernel position i (0 .. 8) around pixel p; the division by 3 is done in
\* StoredMagnitude, so that the sums stay whole numbers
gray3(img, p, i) ==
    LET xOffset    == (i % 3) - 1
        yOffset    == (i \div 3) - 1
        pixelIndex == (((p \div img.width) + yOffset) * img.width
                          + ((p % img.width) + xOffset)) * 4
    IN  img.data[pixelIndex] + img.data[pixelIndex + 1] + img.data[pixelIndex + 2]

\* three times pixelX (sobel = sobelX) or pixelY (sobel = sobelY) at pixel p
RECURSIVE pixelSum3(_, _, _, _)
pixelSum3(img, p, sobel, n) ==
    IF n = 0 THEN 0
    ELSE pixelSum3(img, p, sobel, n - 1) + gray3(img, p, n - 1) * sobel[n]

\* the largest s in lo .. hi with s * s <= n
RECURSIVE SqrtBetween(_, _, _)
SqrtBetween(n, lo, hi) ==
    IF lo = hi THEN lo
    ELSE LET mid == (lo + hi + 1) \div 2
         IN  IF mid * mid <= n THEN SqrtBetween(n, mid, hi) ELSE SqrtBetween(n, lo, mid - 1)

\* Math.floor(Math.sqrt(n)) for 0 <= n < 2^30
FloorSqrt(n) == SqrtBetween(n, 0, 32767)

\* (a slip: |pixelX| + |pixelY| for the root of the squares)
StoredMagnitudeManhattan(x3, y3) ==
    LET m3 == (IF x3 < 0 THEN -x3 ELSE x3) + (IF y3 < 0 THEN -y3 ELSE y3)
    IN  Min2(255, (2 * m3 + 3) \div 6)

\* what a Uint8ClampedArray keeps of magnitude = Math.sqrt(pixelX^2 + pixelY^2),
\* given 3*pixelX and 3*pixelY: the nearest whole number, at most 255
\* (sqrt(n)/3 is never half-way between two whole numbers)
StoredMagnitude(x3, y3) ==
    Min2(255, (FloorSqrt(4 * (x3 * x3 + y3 * y3)) + 3) \div 6)

\* (a slip: edgeData starts as a copy of the input, as refinedData does)
detectEdgesOnCopy(img) ==
    LET inner == LoopPixels(img.width, img.height, 1)
    IN  NewImageData(
            [i \in DOMAIN img.data |->
                IF (i \div 4) \in inner
                THEN IF i % 4 = 3 THEN 255
                     ELSE StoredMagnitude(pixelSum3(img, i \div 4, sobelX, 9),
                                          pixelSum3(img, i \div 4, sobelY, 9))
                ELSE img.data[i]],
            img.width, img.height)

detectEdges(img) ==
    LET inner == LoopPixels(img.width, img.height, 1)
    IN  NewImageData(
            [i \in DOMAIN ZeroSamples(img.width * img.height * 4) |->
                IF (i \div 4) \in inner
                THEN IF i % 4 = 3 THEN 255
                     ELSE StoredMagnitude(pixelSum3(img, i \div 4, sobelX, 9),
                                          pixelSum3(img, i \div 4, sobelY, 9))
                ELSE 0],
            img.width, img.height)

----------------------------------------------------------------------------
(* colorSegmentation.                                                      *)

QuantStep == 32
DistanceThreshold == 80
TopColors == 3

\* (a slip: Math.round for Math.floor)
QuantizeRounded(c) == ((2 * c + QuantStep) \div (2 * QuantStep)) * QuantStep

\* Math.floor(c / 32) * 32
Quantize(c) == (c \div QuantStep) * QuantStep

DigitChars == <<"0", "1", "2", "3", "4", "5", "6", "7", "8", "9">>

\* the decimal digits of n >= 0, as `${n}` prints them
RECURSIVE DigitsOf(_)
DigitsOf(n) ==
    IF n < 10 THEN <<DigitChars[n + 1]>>
    ELSE Append(DigitsOf(n \div 10), DigitChars[(n % 10) + 1])

\* the template string `${r},${g},${b}`: digits, with "," between the numbers
ColorKey(r, g, b) == DigitsOf(r) \o <<",">> \o DigitsOf(g) \o <<",">> \o DigitsOf(b)

\* the colour key of pixel p of a buffer
PixelKey(img, p) ==
    ColorKey(Quantize(Red(img, p)), Quantize(Green(img, p)), Quantize(Blue(img, p)))

\* key.split(','): the pieces between the commas
RECURSIVE SplitComma(_, _, _)
SplitComma(key, i, piece) ==
    IF i > Len(key) THEN <<piece>>
    ELSE IF key[i] = "," THEN <<piece>> \o SplitComma(key, i + 1, <<>>)
    ELSE SplitComma(key, i + 1, Append(piece, key[i]))

\* Number(piece) of a string of decimal digits
RECURSIVE NumberOf(_)
NumberOf(piece) ==
    IF Len(piece) = 0 THEN 0
    ELSE NumberOf(SubSeq(piece, 1, Len(piece) - 1)) * 10
            + (CHOOSE d \in 0 .. 9 : DigitChars[d + 1] = piece[Len(piece)])

\* bgColor.split(',').map(Number)
ParseKey(key) == LET parts == SplitComma(key, 1, <<>>)
                 IN  [k \in 1 .. Len(parts) |-> NumberOf(parts[k])]

\* the pixel numbers pushed on edgePixels, in push order: the top and bottom
\* rows interleaved, then the left and right columns interleaved
edgePixels(width, height) ==
    [k \in 1 .. 2 * width + 2 * height |->
        IF k <= 2 * width
        THEN LET x == (k - 1) \div 2
             IN  IF k % 2 = 1 THEN 0 * width + x ELSE (height - 1) * width + x
        ELSE LET y == (k - 2 * width - 1) \div 2
             IN  IF k % 2 = 1 THEN y * width + 0 ELSE y * width + (width - 1)]

\* edgeColorCounts: the keys in order of first insertion, with their counts
RECURSIVE edgeColorCounts(_, _, _)
edgeColorCounts(img, edges, n) ==
    IF n = 0 THEN <<>>
    ELSE LET sofar == edgeColorCounts(img, edges, n - 1)
             key   == PixelKey(img, edges[n])
             at    == {j \in 1 .. Len(sofar) : sofar[j][1] = key}
         IN  IF at = {} THEN Append(sofar, <<key, 1>>)
             ELSE [j \in 1 .. Len(sofar) |->
                      IF j \in at THEN <<key, sofar[j][2] + 1>> ELSE sofar[j]]

\* Object.entries(...).sort(([,a],[,b]) => b - a): a stable sort, larger counts
\* first; the place (from 1) the entry at position j of entries ends at
SortedPlace(entries, j) ==
    1 + Cardinality({i \in 1 .. Len(entries) :
                        \/ entries[i][2] > entries[j][2]
                        \/ entries[i][2] = entries[j][2] /\ i < j})

\* .sort(...).slice(0, 3).map(([color]) => color)
sortedEdgeColors(img) ==
    LET edges   == edgePixels(img.width, img.height)
        entries == edgeColorCounts(img, edges, Len(edges))
        kept    == Min2(TopColors, Len(entries))
    IN  [k \in 1 .. kept |->
            entries[CHOOSE j \in 1 .. Len(entries) : SortedPlace(entries, j) = k][1]]

\* the Set the sorted edge colours are added to
backgroundColors(img) ==
    LET sorted == sortedEdgeColors(img) IN {sorted[k] : k \in 1 .. Len(sorted)}

\* Math.sqrt(dr^2 + dg^2 + db^2) < 80, for integers
CloseColors(r, g, b, bg) ==
    (r - bg[1]) * (r - bg[1]) + (g - bg[2]) * (g - bg[2]) + (b - bg[3]) * (b - bg[3])
        < DistanceThreshold * DistanceThreshold

\* (a slip: the distance taken from the raw samples, not the quantized ones)
isBackgroundRaw(img, bgs, p) ==
    \/ PixelKey(img, p) \in bgs
    \/ \E bgColor \in bgs :
          CloseColors(Red(img, p), Green(img, p), Blue(img, p), ParseKey(bgColor))

\* isBackground of pixel p, for the background colour set bgs
isBackground(img, bgs, p) ==
    LET r == Quantize(Red(img, p))
        g == Quantize(Green(img, p))
        b == Quantize(Blue(img, p))
    IN  \/ ColorKey(r, g, b) \in bgs
        \/ \E bgColor \in bgs : CloseColors(r, g, b, ParseKey(bgColor))

\* (a slip: the foreground keeps the input alpha instead of getting 255)
colorSegmentationKeepAlpha(img) ==
    LET bgs == backgroundColors(img)
    IN  NewImageData(
            [i \in DOMAIN img.data |->
                IF i % 4 = 3 /\ isBackground(img, bgs, i \div 4) THEN 0 ELSE img.data[i]],
            img.width, img.height)

\* (a slip: the two alpha values swapped)
colorSegmentationSwapped(img) ==
    LET bgs == backgroundColors(img)
    IN  NewImageData(
            [i \in DOMAIN img.data |->
                IF i % 4 = 3
                THEN (IF isBackground(img, bgs, i \div 4) THEN 255 ELSE 0)
                ELSE img.data[i]],
            img.width, img.height)

colorSegmentation(img) ==
    LET bgs == backgroundColors(img)
        bg  == [p \in Pixels(img) |-> isBackground(img, bgs, p)]
    IN  NewImageData(
            [i \in DOMAIN ZeroSamples(img.width * img.height * 4) |->
                IF i % 4 = 3 THEN (IF bg[i \div 4] THEN 0 ELSE 255) ELSE img.data[i]],
            img.width, img.height)

----------------------------------------------------------------------------
(* morphologicalOperations.                                                *)

\* the 3x3 kernel, all ones: the offsets (kx - 1, ky - 1) with kernel[ky][kx] set
kernel == {<<kx - 1, ky - 1>> : kx \in 0 .. 2, ky \in 0 .. 2}

\* the sample index ((y + dy) * width + (x + dx)) * 4 + 3 of a neighbour of pixel p
NeighbourAlpha(width, p, d) == (((p \div width) + d[2]) * width + ((p % width) + d[1])) * 4 + 3

RECURSIVE MinOver(_, _)
MinOver(S, start) ==
    IF S = {} THEN start
    ELSE LET v == CHOOSE v \in S : TRUE IN MinOver(S \ {v}, Min2(start, v))

RECURSIVE MaxOver(_, _)
MaxOver(S, start) ==
    IF S = {} THEN start
    ELSE LET v == CHOOSE v \in S : TRUE IN MaxOver(S \ {v}, Max2(start, v))

\* processedData with the alpha of the loop's pixels copied, not eroded
ErosionSkipped(img) ==
    LET inner == LoopPixels(img.width, img.height, 1)
    IN  [i \in DOMAIN ZeroSamples(img.width * img.height * 4) |->
            IF i % 4 # 3 \/ (i \div 4) \in inner THEN img.data[i] ELSE 0]

\* processedData after the RGB copy and the erosion
Erosion(img) ==
    LET inner == LoopPixels(img.width, img.height, 1)
    IN  [i \in DOMAIN ZeroSamples(img.width * img.height * 4) |->
            IF i % 4 # 3 THEN img.data[i]
            ELSE IF (i \div 4) \in inner
                 THEN MinOver({img.data[NeighbourAlpha(img.width, i \div 4, d)] : d \in kernel}, 255)
                 ELSE 0]

\* dilatedData: a copy of processedData, then the dilation of its alpha
Dilation(processedData, width, height) ==
    LET inner == LoopPixels(width, height, 1)
    IN  [i \in DOMAIN processedData |->
            IF i % 4 = 3 /\ (i \div 4) \in inner
            THEN MaxOver({processedData[NeighbourAlpha(width, i \div 4, d)] : d \in kernel}, 0)
            ELSE processedData[i]]

\* a closing: the dilation of the input first, the erosion of its outcome after
morphologicalClosing(img) ==
    NewImageData(
        Erosion(NewImageData(Dilation(img.data, img.width, img.height), img.width, img.height)),
        img.width, img.height)

morphologicalOperations(img) ==
    NewImageData(Dilation(Erosion(img), img.width, img.height), img.width, img.height)

----------------------------------------------------------------------------
(* refineEdges.                                                            *)

blurRadius == 2

\* the offsets (dx, dy) of the blur with Math.sqrt(dx*dx + dy*dy) <= blurRadius
blurTaps ==
    {d \in (-blurRadius .. blurRadius) \X (-blurRadius .. blurRadius) :
        d[1] * d[1] + d[2] * d[2] <= blurRadius * blurRadius}

\* Math.exp(-(distance * distance) / (2 * blurRadius * blurRadius)) in units of
\* 1/100000, for the squared distances 0, 1, 2 and 4 the taps have
weight(d) ==
    LET d2 == d[1] * d[1] + d[2] * d[2]
    IN  CASE d2 = 0 -> 100000
          [] d2 = 1 -> 88250
          [] d2 = 2 -> 77880
          [] d2 = 4 -> 60653

\* (a slip: the weights of all 25 offsets of the square summed, not only the taps')
weightSumSquare(taps) == 100000 + 4 * 88250 + 4 * 77880 + 4 * 60653 + 8 * 53526 + 4 * 36788

\* weightSum: the sum of the weights over a set of taps
RECURSIVE weightSum(_)
weightSum(taps) ==
    IF taps = {} THEN 0
    ELSE LET d == CHOOSE d \in taps : TRUE IN weight(d) + weightSum(taps \ {d})

\* alphaSum: the weighted sum of the input alpha around pixel p over a set of taps
RECURSIVE alphaSum(_, _, _)
alphaSum(img, p, taps) ==
    IF taps = {} THEN 0
    ELSE LET d == CHOOSE d \in taps : TRUE
         IN  img.data[NeighbourAlpha(img.width, p, d)] * weight(d)
                + alphaSum(img, p, taps \ {d})

\* Math.round(num / den) for num >= 0, den > 0: halves go up
RoundedQuotient(num, den) == (2 * num + den) \div (2 * den)

\* a blur that writes into the buffer it reads, pixel after pixel from pixel p on
RECURSIVE BlurInPlace(_, _)
BlurInPlace(img, p) ==
    IF p >= img.width * img.height THEN img
    ELSE IF p \in LoopPixels(img.width, img.height, blurRadius)
         THEN BlurInPlace(
                  [img EXCEPT !.data[4 * p + 3] =
                      RoundedQuotient(alphaSum(img, p, blurTaps), weightSum(blurTaps))],
                  p + 1)
         ELSE BlurInPlace(img, p + 1)

refineEdgesInPlace(img) == BlurInPlace(img, 0)

refineEdges(img) ==
    LET inner == LoopPixels(img.width, img.height, blurRadius)
    IN  NewImageData(
            [i \in DOMAIN img.data |->
                IF i % 4 = 3 /\ (i \div 4) \in inner
                THEN RoundedQuotient(alphaSum(img, i \div 4, blurTaps), weightSum(blurTaps))
                ELSE img.data[i]],
            img.width, img.height)

----------------------------------------------------------------------------
(* processImageSimple: the mask loop of its load handler.                  *)
(*                                                                         *)
(* With X = 2x - width, Y = 2y - height, P = X*X + Y*Y and Q = width^2 +   *)
(* height^2, normalizedDistance is sqrt(P / Q), and the alpha written for  *)
(* normalizedDistance > 0.6 is 637.5 * (1 - sqrt(P / Q)), which the        *)
(* Uint8ClampedArray rounds to the nearest whole number.                   *)

edgeBand == 10
edgeAlpha == 50

\* u * a <= v * b for u, v >= 0 and a, b > 0, without forming the products
\* (which pass 2^31)
LeqProducts(u, a, v, b) ==
    \/ u \div b < v \div a
    \/ u \div b = v \div a /\ (u % b) * a <= (v % a) * b

\* scale * sqrt(P / Q) <= m, for m > 0: the alpha is at least k - 1/2 when this
\* holds for scale = 1275 and m = 1276 - 2k
DistanceAtMost(P, Q, scale, m) == LeqProducts(scale * P, scale, m * Q, m)

\* the largest k in lo .. hi with scale * sqrt(P / Q) <= top - 2k
RECURSIVE FadeSearch(_, _, _, _, _, _)
FadeSearch(P, Q, scale, top, lo, hi) ==
    IF lo = hi THEN lo
    ELSE LET mid == (lo + hi + 1) \div 2
         IN  IF DistanceAtMost(P, Q, scale, top - 2 * mid)
             THEN FadeSearch(P, Q, scale, top, mid, hi)
             ELSE FadeSearch(P, Q, scale, top, lo, mid - 1)

\* the alpha is exactly k - 1/2: the double arithmetic of the code lands on
\* either side of the half, so the byte kept is k - 1 or k
HalfWay(P, Q, k) ==
    /\ k > 0
    /\ DistanceAtMost(P, Q, 1275, 1276 - 2 * k)
    /\ LeqProducts((1276 - 2 * k) * Q, 1276 - 2 * k, 1275 * P, 1275)

\* (a slip: 255 * (1 - normalizedDistance), the 0.6 and 0.4 left out)
radialAlphaPlainFade(P, Q, up) ==
    IF 25 * P <= 9 * Q THEN 255 ELSE FadeSearch(P, Q, 510, 511, 0, 255)

\* the byte kept of  alpha = 255, or Math.max(0, 255 * (1 - (normalizedDistance
\* - 0.6) / 0.4)) when normalizedDistance > 0.6; up is the set of the values
\* k for which an alpha of exactly k - 1/2 is kept as k
radialAlpha(P, Q, up) ==
    IF 25 * P <= 9 * Q THEN 255
    ELSE LET k == FadeSearch(P, Q, 1275, 1276, 0, 255)
         IN  IF HalfWay(P, Q, k) /\ k \notin up THEN k - 1 ELSE k

\* isEdgePixel
isEdgePixel(width, height, x, y) ==
    x < edgeBand \/ x > width - edgeBand \/ y < edgeBand \/ y > height - edgeBand

\* the alpha the loop writes for pixel (x, y)
simpleAlpha(width, height, x, y, up) ==
    LET X == 2 * x - width
        Y == 2 * y - height
        alpha == radialAlpha(X * X + Y * Y, width * width + height * height, up)
    IN  IF isEdgePixel(width, height, x, y) THEN Min2(alpha, edgeAlpha) ELSE alpha

\* the values k whose half k - 1/2 the alpha of some pixel of a width x height
\* image hits
HalfWayValues(width, height) ==
    LET Q    == width * width + height * height
        P(c) == (2 * c[1] - width) * (2 * c[1] - width)
                    + (2 * c[2] - height) * (2 * c[2] - height)
        K(c) == FadeSearch(P(c), Q, 1275, 1276, 0, 255)
    IN  {K(c) : c \in {c \in (0 .. width - 1) \X (0 .. height - 1) :
                          25 * P(c) > 9 * Q /\ HalfWay(P(c), Q, K(c))}}

\* a mask loop that leaves a pixel the input had fully transparent at 0
simpleMaskKeepingHoles(img, up) ==
    NewImageData(
        [i \in DOMAIN img.data |->
            IF i % 4 = 3
            THEN IF img.data[i] = 0
                 THEN 0
                 ELSE simpleAlpha(img.width, img.height,
                                  (i \div 4) % img.width, (i \div 4) \div img.width, up)
            ELSE img.data[i]],
        img.width, img.height)

\* imageData.data after the loop over y and x
simpleMask(img, up) ==
    NewImageData(
        [i \in DOMAIN img.data |->
            IF i % 4 = 3
            THEN simpleAlpha(img.width, img.height,
                             (i \div 4) % img.width, (i \div 4) \div img.width, up)
            ELSE img.data[i]],
        img.width, img.height)

----------------------------------------------------------------------------
(* The canvas of the instance.                                             *)
(*                                                                         *)
(* A canvas is a record [width, height, clearedBy, paint]: paint maps the  *)
(* index y * width + x of each pixel drawn since the bitmap was last       *)
(* cleared to [rgba, by], the four samples and the call that wrote them;   *)
(* every other pixel is transparent black, left by the call clearedBy that *)
(* sized the canvas last (0 is the constructor).                           *)

NoPaint == [p \in {} |-> 0]

\* document.createElement('canvas'): 300 x 150, transparent black
NewCanvas == [width |-> 300, height |-> 150, clearedBy |-> 0, paint |-> NoPaint]

\* the pixel at index p of the canvas
CanvasPixel(cv, p) ==
    IF p \in DOMAIN cv.paint
    THEN cv.paint[p]
    ELSE [rgba |-> <<0, 0, 0, 0>>, by |-> cv.clearedBy]

\* this.canvas.width = width; this.canvas.height = height, by call c: an
\* assignment to either clears the bitmap, whatever the size was
SetCanvasSizeKeepingBitmap(cv, width, height, c) ==
    IF width = cv.width /\ height = cv.height
    THEN cv
    ELSE [width |-> width, height |-> height, clearedBy |-> c, paint |-> NoPaint]

SetCanvasSize(cv, width, height, c) ==
    [width |-> width, height |-> height, clearedBy |-> c, paint |-> NoPaint]

\* the four samples of pixel p of an ImageData
Samples(img, p) == <<img.data[4 * p], img.data[4 * p + 1], img.data[4 * p + 2], img.data[4 * p + 3]>>

\* one sample of an image pixel composited over a canvas pixel
Blend(s, d, sa, da, oa) == (s * sa * 255 + d * da * (255 - sa)) \div (255 * oa)

\* source-over compositing of an image pixel src on a canvas pixel dst
SourceOver(src, dst) ==
    IF src[4] = 255 \/ dst[4] = 0 THEN src
    ELSE IF src[4] = 0 THEN dst
    ELSE LET oa == src[4] + (dst[4] * (255 - src[4])) \div 255
         IN  <<Blend(src[1], dst[1], src[4], dst[4], oa),
               Blend(src[2], dst[2], src[4], dst[4], oa),
               Blend(src[3], dst[3], src[4], dst[4], oa), oa>>

\* the canvas indices of the pixels of a width x height rectangle at (0, 0)
\* that lie on the canvas
Covered(cv, width, height) ==
    {y * cv.width + x : x \in 0 .. Min2(width, cv.width) - 1,
                        y \in 0 .. Min2(height, cv.height) - 1}

\* this.ctx.drawImage(img, 0, 0) by call c: a fully transparent image pixel
\* leaves the canvas pixel as it is
drawImage(cv, img, c) ==
    LET drawn == {q \in Covered(cv, img.width, img.height) :
                     Samples(img, (q \div cv.width) * img.width + (q % cv.width))[4] # 0}
    IN  [cv EXCEPT !.paint =
            [q \in DOMAIN cv.paint \cup drawn |->
                IF q \in drawn
                THEN [rgba |-> SourceOver(
                                 Samples(img, (q \div cv.width) * img.width + (q % cv.width)),
                                 CanvasPixel(cv, q).rgba),
                      by |-> c]
                ELSE cv.paint[q]]]

\* this.ctx.getImageData(0, 0, width, height): transparent black off the canvas
getImageData(cv, width, height) ==
    NewImageData(
        [i \in 0 .. width * height * 4 - 1 |->
            LET x == (i \div 4) % width
                y == (i \div 4) \div width
            IN  IF x < cv.width /\ y < cv.height
                THEN CanvasPixel(cv, y * cv.width + x).rgba[(i % 4) + 1]
                ELSE 0],
        width, height)

\* the calls whose pixels a read of that rectangle of the canvas returns
ReadFrom(cv, width, height) == {CanvasPixel(cv, q).by : q \in Covered(cv, width, height)}

\* this.ctx.putImageData(img, 0, 0) by call c: replaces the pixels, no compositing
putImageData(cv, img, c) ==
    LET put == Covered(cv, img.width, img.height)
    IN  [cv EXCEPT !.paint =
            [q \in DOMAIN cv.paint \cup put |->
                IF q \in put
                THEN [rgba |-> Samples(img, (q \div cv.width) * img.width + (q % cv.width)),
                      by |-> c]
                ELSE cv.paint[q]]]

\* this.canvas.toDataURL('image/png'): the PNG of the whole bitmap
toDataURL(cv) ==
    [mime |-> "image/png", width |-> cv.width, height |-> cv.height,
     pixels |-> [q \in 0 .. cv.width * cv.height - 1 |-> CanvasPixel(cv, q).rgba]]

----------------------------------------------------------------------------
(* processImage and processImageSimple.                                    *)
(*                                                                         *)
(* promises[c] is the c-th call on the instance: its method, the image its *)
(* src names, the state of the img element ("loading" until its one load   *)
(* or error event), the state of the returned promise with its value, the  *)
(* number of times resolve or reject was called, the calls whose canvas    *)
(* pixels its handler read, and the stages its handler ran: a sequence of  *)
(* [stage, input, output].  A load handler is run to completion, so it is  *)
(* one step.                                                               *)

NoValue == [error |-> ""]

\* new Promise(...); img = new Image(); img.src = imageUrl
NewCall(method, imageUrl) ==
    [method |-> method, src |-> imageUrl, img |-> "loading",
     state |-> "pending", value |-> NoValue, settled |-> 0, read |-> {}, trace |-> <<>>]

\* resolve(value) / reject(value): only the first call settles the promise
Settle(call, state, value) ==
    IF call.state = "pending"
    THEN [call EXCEPT !.state = state, !.value = value, !.settled = @ + 1]
    ELSE [call EXCEPT !.settled = @ + 1]

\* what the try block of a load handler needs before the filters: the sized
\* canvas with the image drawn; drawImage throws for an image without pixels
Thrown(img) == img.width = 0 \/ img.height = 0

\* value, then the rest of the handler with value in hand
Then(value, rest(_)) == CHOOSE r \in {rest(v) : v \in {value}} : TRUE

\* a handler that hands the decoded image to the opening
processImageOnloadWithoutSegmenter(cv, img, c) ==
    IF Thrown(img)
    THEN [canvas |-> SetCanvasSize(cv, img.width, img.height, c), state |-> "rejected",
          value |-> [error |-> "InvalidStateError"], read |-> {}, trace |-> <<>>]
    ELSE
    Then(drawImage(SetCanvasSize(cv, img.width, img.height, c), img, c), LAMBDA drawn :
    Then(getImageData(drawn, img.width, img.height), LAMBDA decoded :
    Then(colorSegmentation(decoded), LAMBDA segmented :
    Then(morphologicalOperations(decoded), LAMBDA morphed :
    Then(refineEdges(morphed), LAMBDA refined :
    Then(putImageData(drawn, refined, c), LAMBDA final :
        [canvas |-> final, state |-> "fulfilled", value |-> toDataURL(final),
         read |-> ReadFrom(drawn, img.width, img.height)
                     \cup ReadFrom(final, final.width, final.height),
         trace |-> <<[stage |-> "decode", input |-> img, output |-> decoded],
                     [stage |-> "colorSegmentation", input |-> decoded, output |-> segmented],
                     [stage |-> "morphologicalOperations", input |-> decoded, output |-> morphed],
                     [stage |-> "refineEdges", input |-> morphed, output |-> refined],
                     [stage |-> "encode", input |-> refined, output |-> final]>>]))))))

\* a handler that resolves with the canvas as drawn
processImageOnloadResolvingFirst(cv, img, c) ==
    IF Thrown(img)
    THEN [canvas |-> SetCanvasSize(cv, img.width, img.height, c), state |-> "rejected",
          value |-> [error |-> "InvalidStateError"], read |-> {}, trace |-> <<>>]
    ELSE
    Then(drawImage(SetCanvasSize(cv, img.width, img.height, c), img, c), LAMBDA drawn :
    Then(getImageData(drawn, img.width, img.height), LAMBDA decoded :
    Then(colorSegmentation(decoded), LAMBDA segmented :
    Then(morphologicalOperations(segmented), LAMBDA morphed :
    Then(refineEdges(morphed), LAMBDA refined :
    Then(putImageData(drawn, refined, c), LAMBDA final :
        [canvas |-> final, state |-> "fulfilled", value |-> toDataURL(drawn),
         read |-> ReadFrom(drawn, img.width, img.height)
                     \cup ReadFrom(final, final.width, final.height),
         trace |-> <<[stage |-> "decode", input |-> img, output |-> decoded],
                     [stage |-> "colorSegmentation", input |-> decoded, output |-> segmented],
                     [stage |-> "morphologicalOperations", input |-> segmented, output |-> morphed],
                     [stage |-> "refineEdges", input |-> morphed, output |-> refined],
                     [stage |-> "encode", input |-> refined, output |-> final]>>]))))))

\* the load handler of processImage for the loaded image img, run by call c
\* on canvas cv: the canvas it leaves, how it settles, what it read, its stages
processImageOnload(cv, img, c) ==
    IF Thrown(img)
    THEN [canvas |-> SetCanvasSize(cv, img.width, img.height, c), state |-> "rejected",
          value |-> [error |-> "InvalidStateError"], read |-> {}, trace |-> <<>>]
    ELSE
    Then(drawImage(SetCanvasSize(cv, img.width, img.height, c), img, c), LAMBDA drawn :
    Then(getImageData(drawn, img.width, img.height), LAMBDA decoded :
    Then(colorSegmentation(decoded), LAMBDA segmented :
    Then(morphologicalOperations(segmented), LAMBDA morphed :
    Then(refineEdges(morphed), LAMBDA refined :
    Then(putImageData(drawn, refined, c), LAMBDA final :
        [canvas |-> final, state |-> "fulfilled", value |-> toDataURL(final),
         read |-> ReadFrom(drawn, img.width, img.height)
                     \cup ReadFrom(final, final.width, final.height),
         trace |-> <<[stage |-> "decode", input |-> img, output |-> decoded],
                     [stage |-> "colorSegmentation", input |-> decoded, output |-> segmented],
                     [stage |-> "morphologicalOperations", input |-> segmented, output |-> morphed],
                     [stage |-> "refineEdges", input |-> morphed, output |-> refined],
                     [stage |-> "encode", input |-> refined, output |-> final]>>]))))))

\* the load handler of processImageSimple
processImageSimpleOnload(cv, img, c, up) ==
    IF Thrown(img)
    THEN [canvas |-> SetCanvasSize(cv, img.width, img.height, c), state |-> "rejected",
          value |-> [error |-> "InvalidStateError"], read |-> {}, trace |-> <<>>]
    ELSE
    Then(drawImage(SetCanvasSize(cv, img.width, img.height, c), img, c), LAMBDA drawn :
    Then(getImageData(drawn, img.width, img.height), LAMBDA decoded :
    Then(simpleMask(decoded, up), LAMBDA masked :
    Then(putImageData(drawn, masked, c), LAMBDA final :
        [canvas |-> final, state |-> "fulfilled", value |-> toDataURL(final),
         read |-> ReadFrom(drawn, img.width, img.height)
                     \cup ReadFrom(final, final.width, final.height),
         trace |-> <<[stage |-> "decode", input |-> img, output |-> decoded],
                     [stage |-> "mask", input |-> decoded, output |-> masked],
                     [stage |-> "encode", input |-> masked, output |-> final]>>]))))

\* the instance as the constructor leaves it, no call made
InstanceAtRest ==
    /\ canvas = NewCanvas
    /\ promises = <<>>

----------------------------------------------------------------------------
(* The App component: its state as useState initialises it.                *)

Null == "null"

NoProcessedImage == [original |-> Null, processed |-> Null]

AppAtRest ==
    /\ ui = [uploadedImage |-> Null, processedImage |-> NoProcessedImage,
             isProcessing |-> FALSE, processingStep |-> "", alerts |-> 0]
    /\ requests = <<>>
    /\ readers = <<>>

----------------------------------------------------------------------------
(* The inputs of the segmenter.                                            *)
(*  - every image of up to MaxSegW x MaxSegH and MaxSegPixels pixels over  *)
(*    three colours in three different buckets; over four colours in four  *)
(*    buckets when it has at most MaxFullPixels pixels (a border can then  *)
(*    show more colours than the three that are kept);                     *)
(*  - every image of up to MaxBoxW x MaxBoxH pixels that is one colour     *)
(*    with a rectangle of another (or the same) colour anywhere in it.     *)

White == <<255, 255, 255, 255>>
Lime  == <<0, 255, 0, 255>>
Pale  == <<159, 224, 224, 128>>
Grey  == <<200, 200, 200, 0>>

SegPalette(w, h) ==
    IF w * h <= MaxFullPixels THEN {White, Lime, Pale, Grey} ELSE {White, Lime, Pale}

\* pixel p of a width-wide image lies in columns x0..x1 and rows y0..y1
InBox(width, p, x0, x1, y0, y1) ==
    /\ x0 <= p % width /\ p % width <= x1
    /\ y0 <= p \div width /\ p \div width <= y1

BoxImage(w, h, x0, x1, y0, y1, ground, box) ==
    Decode(w, h, [p \in 0 .. w * h - 1 |->
                    IF InBox(w, p, x0, x1, y0, y1) THEN box ELSE ground])

IsSegInput(img) ==
    \/ \E w \in 1 .. MaxSegW, h \in 1 .. MaxSegH :
          /\ w * h <= MaxSegPixels
          /\ \E pix \in [0 .. w * h - 1 -> SegPalette(w, h)] : img = Decode(w, h, pix)
    \/ \E w \in 1 .. MaxBoxW, h \in 1 .. MaxBoxH :
          \E x0 \in 0 .. w - 1, y0 \in 0 .. h - 1 :
            \E x1 \in x0 .. w - 1, y1 \in y0 .. h - 1 :
              \E ground \in {White, Lime, Pale, Grey}, box \in {White, Lime, Pale, Grey} :
                img = BoxImage(w, h, x0, x1, y0, y1, ground, box)

\* the buffer the next call is given
Argument == IF calls = <<>> THEN imageData ELSE result

Init ==
    /\ IsSegInput(imageData)
    /\ result = NoImage
    /\ calls = <<>>
    /\ InstanceAtRest /\ AppAtRest

CallColorSegmentation ==
    /\ calls = <<>>
    /\ imageData' = Argument
    /\ result' = colorSegmentation(Argument)
    /\ calls' = Append(calls, "colorSegmentation")
    /\ UNCHANGED others

Next == CallColorSegmentation

Spec == Init /\ [][Next]_vars

----------------------------------------------------------------------------
(* The inputs of the mask filters: images whose pixels carry distinct      *)
(* colours, with the alpha masks below.                                    *)

AlphaLevels == {0, 128, 255}

\* the image with alpha mask[p] at pixel p
MaskImage(w, h, mask) ==
    Decode(w, h, [p \in 0 .. w * h - 1 |-> <<p, 255 - p, (7 * p) % 256, mask[p]>>])

\* every mask over {0, 255} of up to MaxMaskW x MaxMaskH pixels
IsBinaryMask(img) ==
    \E w \in 1 .. MaxMaskW, h \in 1 .. MaxMaskH :
        \E mask \in [0 .. w * h - 1 -> {0, 255}] : img = MaskImage(w, h, mask)

\* one alpha level with a rectangle of another level anywhere in it
IsPatchMask(img) ==
    \E w \in 1 .. MaxPatchW, h \in 1 .. MaxPatchH :
        \E x0 \in 0 .. w - 1, y0 \in 0 .. h - 1 :
          \E x1 \in x0 .. w - 1, y1 \in y0 .. h - 1 :
            \E ground \in AlphaLevels, patch \in AlphaLevels :
              img = MaskImage(w, h, [p \in 0 .. w * h - 1 |->
                        IF InBox(w, p, x0, x1, y0, y1) THEN patch ELSE ground])

\* one alpha level with up to two pixels of other levels, in the images large
\* enough for the blur to process a pixel
IsSpotMask(img) ==
    \E w \in 5 .. MaxSpotW, h \in 5 .. MaxSpotH :
        \E s \in 0 .. w * h - 1 :
          \E t \in s .. w * h - 1 :
            \E ground \in AlphaLevels, a \in AlphaLevels, b \in AlphaLevels :
              img = MaskImage(w, h, [p \in 0 .. w * h - 1 |->
                        IF p = s THEN a ELSE IF p = t THEN b ELSE ground])

\* one alpha level with one pixel of another level, in the images with a
\* pixel off the border
IsSpeckMask(img) ==
    \E w \in 3 .. MaxSpeckW, h \in 3 .. MaxSpeckH :
        \E s \in 0 .. w * h - 1 :
          \E ground \in AlphaLevels, a \in AlphaLevels :
            img = MaskImage(w, h, [p \in 0 .. w * h - 1 |-> IF p = s THEN a ELSE ground])

InitMorph ==
    /\ IsBinaryMask(imageData) \/ IsPatchMask(imageData) \/ IsSpeckMask(imageData)
    /\ result = NoImage
    /\ calls = <<>>
    /\ InstanceAtRest /\ AppAtRest

CallMorphologicalOperations ==
    /\ Len(calls) < MaxCalls
    /\ imageData' = Argument
    /\ result' = morphologicalOperations(Argument)
    /\ calls' = Append(calls, "morphologicalOperations")
    /\ UNCHANGED others

NextMorph == CallMorphologicalOperations

SpecMorph == InitMorph /\ [][NextMorph]_vars

InitRefine ==
    /\ IsPatchMask(imageData) \/ IsSpotMask(imageData)
    /\ result = NoImage
    /\ calls = <<>>
    /\ InstanceAtRest /\ AppAtRest

CallRefineEdges ==
    /\ calls = <<>>
    /\ imageData' = Argument
    /\ result' = refineEdges(Argument)
    /\ calls' = Append(calls, "refineEdges")
    /\ UNCHANGED others

NextRefine == CallRefineEdges

SpecRefine == InitRefine /\ [][NextRefine]_vars

----------------------------------------------------------------------------
(* The inputs of the edge detector: every image of up to MaxEdgeW x        *)
(* MaxEdgeH and MaxEdgePixels pixels over black, white and a dark colour   *)
(* whose gray is not a whole number, and the one-colour images with a      *)
(* rectangle of another colour of up to MaxBoxW x MaxBoxH pixels.          *)

Black == <<0, 0, 0, 255>>
Dusk  == <<10, 20, 40, 77>>

IsEdgeInput(img) ==
    \/ \E w \in 1 .. MaxEdgeW, h \in 1 .. MaxEdgeH :
          /\ w * h <= MaxEdgePixels
          /\ \E pix \in [0 .. w * h - 1 -> {Black, White, Dusk}] : img = Decode(w, h, pix)
    \/ \E w \in 1 .. MaxBoxW, h \in 1 .. MaxBoxH :
          \E x0 \in 0 .. w - 1, y0 \in 0 .. h - 1 :
            \E x1 \in x0 .. w - 1, y1 \in y0 .. h - 1 :
              \E ground \in {White, Dusk, Pale}, box \in {White, Dusk, Pale} :
                img = BoxImage(w, h, x0, x1, y0, y1, ground, box)

InitEdges ==
    /\ IsEdgeInput(imageData)
    /\ result = NoImage
    /\ calls = <<>>
    /\ InstanceAtRest /\ AppAtRest

CallDetectEdges ==
    /\ calls = <<>>
    /\ imageData' = Argument
    /\ result' = detectEdges(Argument)
    /\ calls' = Append(calls, "detectEdges")
    /\ UNCHANGED others

NextEdges == CallDetectEdges

SpecEdges == InitEdges /\ [][NextEdges]_vars

----------------------------------------------------------------------------
(* The inputs of processImageSimple: images of the SimpleWidths x          *)
(* SimpleHeights sizes, wide enough to have pixels outside the edge bands  *)
(* beyond normalized distance 0.6; of one colour, or with a different      *)
(* colour at every pixel.                                                  *)

SimpleWidths  == (MaxSimpleW - 10) .. MaxSimpleW
SimpleHeights == (MaxSimpleH - 2) .. MaxSimpleH

IsSimpleInput(img) ==
    \E w \in SimpleWidths, h \in SimpleHeights :
        \/ \E c \in {White, Dusk} : img = Decode(w, h, [p \in 0 .. w * h - 1 |-> c])
        \/ img = Decode(w, h, [p \in 0 .. w * h - 1 |->
                                  <<p % 256, (3 * p) % 256, 255 - (p % 256), p % 2>>])

InitSimple ==
    /\ IsSimpleInput(imageData)
    /\ result = NoImage
    /\ calls = <<>>
    /\ InstanceAtRest /\ AppAtRest

\* the load handler of processImageSimple up to putImageData; imageData keeps
\* the buffer as getImageData returned it, result is that buffer after the loop
ProcessImageSimpleLoad ==
    /\ calls = <<>>
    /\ \E up \in SUBSET HalfWayValues(Argument.width, Argument.height) :
          result' = simpleMask(Argument, up)
    /\ imageData' = Argument
    /\ calls' = Append(calls, "processImageSimple")
    /\ UNCHANGED others

NextSimple == ProcessImageSimpleLoad

SpecSimple == InitSimple /\ [][NextSimple]_vars

----------------------------------------------------------------------------
(* The calls on one instance: up to MaxInstanceCalls calls of processImage *)
(* or processImageSimple, each for an image that fails to load, an image   *)
(* without pixels, or a picture 5 pixels high: a lime square on            *)
(* transparent ground, 5 to MaxLoadW pixels wide, or a lime square or a    *)
(* lime pixel on white, 5 wide; processImageSimple is called for the image *)
(* that fails to load and for the narrowest transparent picture.           *)

MaxLoadW == 6
MaxInstanceCalls == 2

Clear == <<0, 0, 0, 0>>

Unloadable == [loads |-> FALSE, bitmap |-> NoImage]

Pictures ==
    {BoxImage(w, 5, 1, 3, 1, 3, Clear, Lime) : w \in 5 .. MaxLoadW}
    \cup {BoxImage(5, 5, 1, 3, 1, 3, White, Lime), BoxImage(5, 5, 2, 2, 2, 2, White, Lime)}

ImageUrls ==
    {Unloadable} \cup {[loads |-> TRUE, bitmap |-> b] : b \in Pictures \cup {NoImage}}

SimpleImageUrls ==
    {Unloadable, [loads |-> TRUE, bitmap |-> BoxImage(5, 5, 1, 3, 1, 3, Clear, Lime)]}

filters == <<imageData, result, calls>>

InitProcess ==
    /\ imageData = NoImage
    /\ result = NoImage
    /\ calls = <<>>
    /\ InstanceAtRest /\ AppAtRest

\* processImage(imageUrl) up to img.src = imageUrl
ProcessImage ==
    /\ Len(promises) < MaxInstanceCalls
    /\ \E imageUrl \in ImageUrls :
          promises' = Append(promises, NewCall("processImage", imageUrl))
    /\ UNCHANGED <<filters, canvas, ui, requests, readers>>

\* processImageSimple(imageUrl) up to img.src = imageUrl
ProcessImageSimple ==
    /\ Len(promises) < MaxInstanceCalls
    /\ \E imageUrl \in SimpleImageUrls :
          promises' = Append(promises, NewCall("processImageSimple", imageUrl))
    /\ UNCHANGED <<filters, canvas, ui, requests, readers>>

\* the load event of the img of call c
Loaded(c) ==
    /\ c \in DOMAIN promises
    /\ promises[c].img = "loading"
    /\ promises[c].src.loads

\* img.onload of processImage
ImgOnload(c) ==
    /\ Loaded(c)
    /\ promises[c].method = "processImage"
    /\ \E done \in {processImageOnload(canvas, promises[c].src.bitmap, c)} :
           /\ canvas' = done.canvas
           /\ promises' = [promises EXCEPT ![c] =
                  [Settle(@, done.state, done.value) EXCEPT
                      !.img = "complete", !.read = done.read, !.trace = done.trace]]
    /\ UNCHANGED <<filters, ui, requests, readers>>

\* img.onload of processImageSimple
ImgOnloadSimple(c) ==
    /\ Loaded(c)
    /\ promises[c].method = "processImageSimple"
    /\ \E up \in SUBSET HalfWayValues(promises[c].src.bitmap.width,
                                      promises[c].src.bitmap.height) :
          \E done \in {processImageSimpleOnload(canvas, promises[c].src.bitmap, c, up)} :
              /\ canvas' = done.canvas
              /\ promises' = [promises EXCEPT ![c] =
                     [Settle(@, done.state, done.value) EXCEPT
                         !.img = "complete", !.read = done.read, !.trace = done.trace]]
    /\ UNCHANGED <<filters, ui, requests, readers>>

\* img.onerror of either method
ImgOnerror(c) ==
    /\ c \in DOMAIN promises
    /\ promises[c].img = "loading"
    /\ ~promises[c].src.loads
    /\ promises' = [promises EXCEPT ![c] =
           [Settle(@, "rejected", [error |-> "Failed to load image"]) EXCEPT
               !.img = "broken"]]
    /\ UNCHANGED <<filters, canvas, ui, requests, readers>>

NextProcess ==
    \/ ProcessImage
    \/ ProcessImageSimple
    \/ \E c \in 1 .. MaxInstanceCalls : ImgOnload(c)
    \/ \E c \in 1 .. MaxInstanceCalls : ImgOnloadSimple(c)
    \/ \E c \in 1 .. MaxInstanceCalls : ImgOnerror(c)

SpecProcess == InitProcess /\ [][NextProcess]_vars

----------------------------------------------------------------------------
(* The App component and the Photoroom client.                             *)
(*                                                                         *)
(* ui holds the useState values the handlers below touch, and the number   *)
(* of alerts raised.  A run of processImageWithPhotoroom is a record of    *)
(* requests from its call until it returns: the uploadedImage its closure  *)
(* captured, the await it is at ("uploading", "api" or "finalizing") and   *)
(* the processedDataUrl it holds.  The code between two awaits is one      *)
(* step.  The filename of a ProcessedImage, a timestamp, is left out.      *)

MaxRuns == 2
MaxReaders == 2

\* the files a user picks or drops
Files ==
    {[name |-> "a.png", type |-> "image/png", content |-> "A"],
     [name |-> "b.jpg", type |-> "image/jpeg", content |-> "B"],
     [name |-> "notes.txt", type |-> "text/plain", content |-> "T"]}

\* file.type.startsWith('image/')
IsImageType(type) == type \in {"image/png", "image/jpeg"}

\* reader.readAsDataURL(file): e.target.result
readAsDataURL(file) == "data:" \o file.type \o ";base64," \o file.content

\* fetch(dataUrl), response.blob(), new File([blob], 'image.jpg', { type: blob.type })
FileOfDataUrl(dataUrl) ==
    LET file == CHOOSE f \in Files : readAsDataURL(f) = dataUrl
    IN  [name |-> "image.jpg", type |-> file.type, content |-> file.content]

\* what the fetch of removeBackground can come to for imageFile: the request
\* fails, or a response arrives, OK with the cutout or not OK
Replies(imageFile) ==
    {[arrived |-> FALSE, ok |-> FALSE, status |-> 0, body |-> ""],
     [arrived |-> TRUE, ok |-> FALSE, status |-> 402, body |-> "Payment Required"],
     [arrived |-> TRUE, ok |-> TRUE, status |-> 200, body |-> "cutout-" \o imageFile.content]}

\* a client that takes every response that arrives for the image
removeBackgroundAnyStatus(imageFile, reply) ==
    IF ~reply.arrived
    THEN [thrown |-> TRUE, value |-> "Failed to process image with Photoroom API"]
    ELSE [thrown |-> FALSE, value |-> "blob:" \o reply.body]

\* PhotoroomAPI.removeBackground(imageFile) once its fetch came to reply:
\* the object URL returned or the Error thrown
removeBackground(imageFile, reply) ==
    IF ~reply.arrived \/ ~reply.ok
    THEN [thrown |-> TRUE, value |-> "Failed to process image with Photoroom API"]
    ELSE [thrown |-> FALSE, value |-> "blob:" \o reply.body]

\* PhotoroomAPI.removeBackgroundFromDataUrl(dataUrl)
removeBackgroundFromDataUrl(dataUrl, reply) == removeBackground(FileOfDataUrl(dataUrl), reply)

\* a sequence without its i-th element
Without(seq, i) == SubSeq(seq, 1, i - 1) \o SubSeq(seq, i + 1, Len(seq))

\* the finally block
Finally(state) == [state EXCEPT !.isProcessing = FALSE, !.processingStep = ""]

InitApp ==
    /\ imageData = NoImage
    /\ result = NoImage
    /\ calls = <<>>
    /\ InstanceAtRest /\ AppAtRest

\* handleFileUpload(file), from the drop zone or the file input, which are
\* rendered while there is no uploadedImage
HandleFileUpload(file) ==
    /\ ui.uploadedImage = Null
    /\ Len(readers) < MaxReaders
    /\ IsImageType(file.type)
    /\ readers' = Append(readers, file)
    /\ UNCHANGED <<filters, canvas, promises, ui, requests>>

\* reader.onload of the i-th pending FileReader
ReaderOnload(i) ==
    /\ i \in DOMAIN readers
    /\ ui' = [ui EXCEPT !.uploadedImage = readAsDataURL(readers[i]),
                        !.processedImage = NoProcessedImage]
    /\ readers' = Without(readers, i)
    /\ UNCHANGED <<filters, canvas, promises, requests>>

\* a click on 'Remove Background': processImageWithPhotoroom up to its first
\* await; alerts and runs in flight are capped at MaxRuns together
ProcessImageWithPhotoroom ==
    /\ ui.uploadedImage # Null
    /\ ui.processedImage = NoProcessedImage /\ ~ui.isProcessing
    /\ ui.alerts + Len(requests) < MaxRuns
    /\ ui' = [ui EXCEPT !.isProcessing = TRUE,
                        !.processingStep = "Uploading image for processing..."]
    /\ requests' = Append(requests, [uploadedImage |-> ui.uploadedImage,
                                     at |-> "uploading", processedDataUrl |-> Null])
    /\ UNCHANGED <<filters, canvas, promises, readers>>

\* the 1000 ms timer of run i fires: on to the await of the API call
UploadingDone(i) ==
    /\ i \in DOMAIN requests
    /\ requests[i].at = "uploading"
    /\ ui' = [ui EXCEPT !.processingStep = "Removing background with professional AI..."]
    /\ requests' = [requests EXCEPT ![i].at = "api"]
    /\ UNCHANGED <<filters, canvas, promises, readers>>

\* the API call of run i comes back: on to the 500 ms timer, or catch and finally
RemoveBackgroundDone(i) ==
    /\ i \in DOMAIN requests
    /\ requests[i].at = "api"
    /\ \E reply \in Replies(FileOfDataUrl(requests[i].uploadedImage)) :
          LET done == removeBackgroundFromDataUrl(requests[i].uploadedImage, reply)
          IN  IF done.thrown
              THEN /\ ui' = Finally([ui EXCEPT !.alerts = @ + 1])
                   /\ requests' = Without(requests, i)
              ELSE /\ ui' = [ui EXCEPT !.processingStep = "Finalizing high-quality result..."]
                   /\ requests' = [requests EXCEPT ![i].at = "finalizing",
                                                   ![i].processedDataUrl = done.value]
    /\ UNCHANGED <<filters, canvas, promises, readers>>

\* the 500 ms timer of run i fires: setProcessedImage and finally
FinalizingDone(i) ==
    /\ i \in DOMAIN requests
    /\ requests[i].at = "finalizing"
    /\ ui' = Finally([ui EXCEPT !.processedImage =
                         [original |-> requests[i].uploadedImage,
                          processed |-> requests[i].processedDataUrl]])
    /\ requests' = Without(requests, i)
    /\ UNCHANGED <<filters, canvas, promises, readers>>

\* a click on the X over the uploaded image
ResetApp ==
    /\ ui.uploadedImage # Null
    /\ ui' = [ui EXCEPT !.uploadedImage = Null, !.processedImage = NoProcessedImage,
                        !.isProcessing = FALSE]
    /\ UNCHANGED <<filters, canvas, promises, requests, readers>>

NextApp ==
    \/ \E file \in Files : HandleFileUpload(file)
    \/ \E i \in 1 .. MaxReaders : ReaderOnload(i)
    \/ ProcessImageWithPhotoroom
    \/ \E i \in 1 .. MaxRuns : UploadingDone(i)
    \/ \E i \in 1 .. MaxRuns : RemoveBackgroundDone(i)
    \/ \E i \in 1 .. MaxRuns : FinalizingDone(i)
    \/ ResetApp

SpecApp == InitApp /\ [][NextApp]_vars

----------------------------------------------------------------------------
(* Vocabulary of the properties.                                           *)

Column(img, p) == p % img.width
Row(img, p)    == p \div img.width

\* how many of the four sides of the image pixel p lies on
SidesOf(img, p) ==
      (IF Row(img, p) = 0 THEN 1 ELSE 0)
    + (IF Row(img, p) = img.height - 1 THEN 1 ELSE 0)
    + (IF Column(img, p) = 0 THEN 1 ELSE 0)
    + (IF Column(img, p) = img.width - 1 THEN 1 ELSE 0)

OnBorder(img, p) == SidesOf(img, p) > 0

RawColor(img, p) == <<Red(img, p), Green(img, p), Blue(img, p)>>

Bucket(img, p) ==
    <<(Red(img, p) \div 32) * 32, (Green(img, p) \div 32) * 32, (Blue(img, p) \div 32) * 32>>

BorderBuckets(img) == {Bucket(img, p) : p \in {q \in Pixels(img) : OnBorder(img, q)}}

\* the number of border pixels in bucket c
BorderFrequency(img, c) ==
    Cardinality({p \in Pixels(img) : OnBorder(img, p) /\ Bucket(img, p) = c})

\* the number of samples of bucket c when a pixel is sampled once per side it lies on
RECURSIVE SideSamples(_, _, _)
SideSamples(img, c, n) ==
    IF n = 0 THEN 0
    ELSE SideSamples(img, c, n - 1)
            + (IF Bucket(img, n - 1) = c THEN SidesOf(img, n - 1) ELSE 0)

\* the place in the sampling order at which bucket c is met first
FirstSampled(img, c) ==
    LET edges == edgePixels(img.width, img.height)
    IN  CHOOSE k \in 1 .. Len(edges) :
            /\ Bucket(img, edges[k]) = c
            /\ \A j \in 1 .. k - 1 : Bucket(img, edges[j]) # c

\* B is a choice of the (up to) 3 most frequent border buckets
MostFrequent(img, B) ==
    /\ B \subseteq BorderBuckets(img)
    /\ Cardinality(B) = Min2(3, Cardinality(BorderBuckets(img)))
    /\ \A c \in B, d \in BorderBuckets(img) \ B :
          BorderFrequency(img, c) >= BorderFrequency(img, d)

\* B is the (up to) 3 buckets sampled most often, the bucket met first winning a tie
MostSampled(img, B) ==
    /\ B \subseteq BorderBuckets(img)
    /\ Cardinality(B) = Min2(3, Cardinality(BorderBuckets(img)))
    /\ \A c \in B, d \in BorderBuckets(img) \ B :
          LET nc == SideSamples(img, c, img.width * img.height)
              nd == SideSamples(img, d, img.width * img.height)
          IN  nc > nd \/ (nc = nd /\ FirstSampled(img, c) < FirstSampled(img, d))

\* the Euclidean distance between two colour triples is below 80
Within80(a, b) ==
    (a[1] - b[1]) * (a[1] - b[1]) + (a[2] - b[2]) * (a[2] - b[2])
        + (a[3] - b[3]) * (a[3] - b[3]) < 6400

AfterSegmentation == calls = <<"colorSegmentation">>

SameRGB(a, b) ==
    /\ a.width = b.width /\ a.height = b.height /\ DOMAIN a.data = DOMAIN b.data
    /\ \A p \in Pixels(a) : RawColor(a, p) = RawColor(b, p)

----------------------------------------------------------------------------
(* C1: colorSegmentation returns the input's R, G and B at every pixel and *)
(* an alpha that is exactly 0 or exactly 255, whatever the input alpha.    *)
C1_RGBKeptAlphaBinary ==
    AfterSegmentation =>
        /\ SameRGB(result, imageData)
        /\ \A p \in Pixels(result) : Alpha(result, p) \in {0, 255}

\* a call that turned an input alpha of 128 into 255 and one of 255 into 0
C1_Witness ==
    /\ AfterSegmentation
    /\ \E p, q \in Pixels(imageData) :
          /\ Alpha(imageData, p) = 128 /\ Alpha(result, p) = 255
          /\ Alpha(imageData, q) = 255 /\ Alpha(result, q) = 0

(* C2 as stated: with the background set the (up to) 3 most frequent       *)
(* quantized border colours, a pixel gets alpha 0 iff its quantized colour *)
(* is in the set or its RAW colour is within 80 of a background bucket,    *)
(* and alpha 255 otherwise.                                                *)
C2_AsStated ==
    AfterSegmentation =>
        \E B \in SUBSET BorderBuckets(imageData) :
            /\ MostFrequent(imageData, B)
            /\ \A p \in Pixels(imageData) :
                  Alpha(result, p) =
                      IF \/ Bucket(imageData, p) \in B
                         \/ \E bg \in B : Within80(RawColor(imageData, p), bg)
                      THEN 0 ELSE 255

(* C2 amended: with the background set the (up to) 3 quantized colours     *)
(* sampled most often on the border, a pixel sampled once per side it lies *)
(* on and the colour met first winning a tie, a pixel gets alpha 0 iff its *)
(* quantized colour is in the set or its QUANTIZED colour is within 80 of  *)
(* a background bucket, and alpha 255 otherwise.                           *)
C2_QuantizedDistance ==
    AfterSegmentation =>
        \E B \in SUBSET BorderBuckets(imageData) :
            /\ MostSampled(imageData, B)
            /\ \A p \in Pixels(imageData) :
                  Alpha(result, p) =
                      IF \/ Bucket(imageData, p) \in B
                         \/ \E bg \in B : Within80(Bucket(imageData, p), bg)
                      THEN 0 ELSE 255

\* a call that kept a pixel (alpha 255) whose raw colour is within 80 of a
\* background bucket, its quantized colour being farther, and removed another
C2_Witness ==
    /\ AfterSegmentation
    /\ \E B \in SUBSET BorderBuckets(imageData) :
          /\ MostSampled(imageData, B)
          /\ \E p, q \in Pixels(imageData) :
                /\ \E bg \in B : Within80(RawColor(imageData, p), bg)
                /\ Alpha(result, p) = 255
                /\ Alpha(result, q) = 0

(* C3: in an image that is white except for fully green pixels that do not *)
(* touch the border, every white pixel gets alpha 0 and every green pixel  *)
(* alpha 255.                                                              *)
WhiteWithGreenInside(img) ==
    /\ \A p \in Pixels(img) :
          /\ RawColor(img, p) \in {<<255, 255, 255>>, <<0, 255, 0>>}
          /\ OnBorder(img, p) => RawColor(img, p) = <<255, 255, 255>>
    /\ \E p \in Pixels(img) : RawColor(img, p) = <<0, 255, 0>>

C3_GreenSquareKept ==
    AfterSegmentation /\ WhiteWithGreenInside(imageData) =>
        \A p \in Pixels(imageData) :
            Alpha(result, p) = IF RawColor(imageData, p) = <<0, 255, 0>> THEN 255 ELSE 0

\* a 5x5 white image with a green square of more than one pixel in it, segmented
C3_Witness ==
    /\ AfterSegmentation
    /\ WhiteWithGreenInside(imageData)
    /\ imageData.width = 5 /\ imageData.height = 5
    /\ Cardinality({p \in Pixels(imageData) : Alpha(result, p) = 255}) = 4

(* C4: in an image whose pixels all have one colour the border histogram   *)
(* has that colour's bucket as its only and top colour (for white, the     *)
(* bucket 224,224,224) and every pixel gets alpha 0.                       *)
Uniform(img) == \A p \in Pixels(img) : RawColor(img, p) = RawColor(img, 0)

C4_UniformAllBackground ==
    AfterSegmentation /\ Uniform(imageData) =>
        /\ sortedEdgeColors(imageData) = <<PixelKey(imageData, 0)>>
        /\ RawColor(imageData, 0) = <<255, 255, 255>> =>
              sortedEdgeColors(imageData)
                  = << <<"2", "2", "4", ",", "2", "2", "4", ",", "2", "2", "4">> >>
        /\ \A p \in Pixels(result) : Alpha(result, p) = 0

\* the 4x4 uniform white image, segmented
C4_Witness ==
    /\ AfterSegmentation
    /\ Uniform(imageData)
    /\ imageData.width = 4 /\ imageData.height = 4
    /\ RawColor(imageData, 0) = <<255, 255, 255>>
    /\ \A p \in Pixels(result) : Alpha(result, p) = 0

(* C5 as stated: morphologicalOperations is idempotent on an opened mask:  *)
(* applied to the buffer it returned, it returns an equal buffer.          *)
C5_OpeningIdempotent ==
    calls = <<"morphologicalOperations", "morphologicalOperations">> =>
        result = imageData

(* C6: refineEdges creates no new extrema: at every pixel at least 2       *)
(* pixels from every edge the output alpha lies between the minimum and    *)
(* the maximum of the input alpha over the offsets with dx*dx + dy*dy <= 4 *)
(* (so a region of constant alpha keeps that alpha).                       *)
AroundAlpha(img, p) ==
    {Alpha(img, (Row(img, p) + dy) * img.width + Column(img, p) + dx) :
        <<dx, dy>> \in {d \in (-2 .. 2) \X (-2 .. 2) : d[1] * d[1] + d[2] * d[2] <= 4}}

Processed(img, p) ==
    /\ 2 <= Column(img, p) /\ Column(img, p) < img.width - 2
    /\ 2 <= Row(img, p) /\ Row(img, p) < img.height - 2

C6_NoNewExtrema ==
    calls = <<"refineEdges">> =>
        \A p \in Pixels(imageData) :
            Processed(imageData, p) =>
                /\ \E lo \in AroundAlpha(imageData, p) : lo <= Alpha(result, p)
                /\ \E hi \in AroundAlpha(imageData, p) : Alpha(result, p) <= hi

\* a blurred pixel strictly between its neighbourhood's extrema and different
\* from its input, next to a pixel of a constant neighbourhood that kept its alpha
C6_Witness ==
    /\ calls = <<"refineEdges">>
    /\ \E p, q \in Pixels(imageData) :
          /\ Processed(imageData, p) /\ Processed(imageData, q)
          /\ Alpha(result, p) # Alpha(imageData, p)
          /\ \E lo, hi \in AroundAlpha(imageData, p) :
                lo < Alpha(result, p) /\ Alpha(result, p) < hi
          /\ AroundAlpha(imageData, q) = {255}
          /\ Alpha(result, q) = 255

(* C7: detectEdges returns a buffer of the input's width, height and       *)
(* sample count, and every pixel of row 0, the last row, column 0 and the  *)
(* last column has gradient value 0 in R, G and B.                         *)
C7_SameSizeZeroBorder ==
    calls = <<"detectEdges">> =>
        /\ result.width = imageData.width
        /\ result.height = imageData.height
        /\ DOMAIN result.data = 0 .. imageData.width * imageData.height * 4 - 1
        /\ DOMAIN result.data = DOMAIN imageData.data
        /\ \A p \in Pixels(result) :
              OnBorder(result, p) => RawColor(result, p) = <<0, 0, 0>>

\* an image with a nonzero gradient inside and a white pixel on the border
C7_Witness ==
    /\ calls = <<"detectEdges">>
    /\ \E p, q \in Pixels(imageData) :
          /\ ~OnBorder(imageData, p) /\ Red(result, p) > 0
          /\ OnBorder(imageData, q) /\ RawColor(imageData, q) = <<255, 255, 255>>
          /\ RawColor(result, q) = <<0, 0, 0>>

(* C8 as stated: each pixel of the output of detectEdges, border pixels    *)
(* included, has R = G = B equal to one value in 0..255 and A = 255.       *)
C8_AsStated ==
    calls = <<"detectEdges">> =>
        \A p \in Pixels(result) :
            /\ Red(result, p) \in 0 .. 255
            /\ Green(result, p) = Red(result, p) /\ Blue(result, p) = Red(result, p)
            /\ Alpha(result, p) = 255

\* the sum of R, G and B of the pixel dx columns and dy rows from pixel p
GraySum(img, p, dx, dy) ==
    LET q == (Row(img, p) + dy) * img.width + Column(img, p) + dx
    IN  Red(img, q) + Green(img, q) + Blue(img, q)

\* v is sqrt(gx^2 + gy^2) / 3 to the nearest whole number, cut off at 255
NearestToThird(v, gx, gy) ==
    LET n4 == 4 * (gx * gx + gy * gy)
    IN  /\ v \in 0 .. 255
        /\ v > 0 => 9 * (2 * v - 1) * (2 * v - 1) <= n4
        /\ v < 255 => n4 < 9 * (2 * v + 1) * (2 * v + 1)

(* C8 amended: each pixel of the output of detectEdges that is not in row  *)
(* 0, the last row, column 0 or the last column has R = G = B equal to the *)
(* Sobel gradient magnitude of the input's gray (R+G+B)/3, rounded and     *)
(* clamped to 0..255, and A = 255; each pixel of those rows and columns    *)
(* has R = G = B = A = 0.                                                  *)
C8_InteriorMagnitude ==
    calls = <<"detectEdges">> =>
        \A p \in Pixels(result) :
            IF OnBorder(imageData, p)
            THEN RawColor(result, p) = <<0, 0, 0>> /\ Alpha(result, p) = 0
            ELSE /\ Green(result, p) = Red(result, p) /\ Blue(result, p) = Red(result, p)
                 /\ Alpha(result, p) = 255
                 /\ NearestToThird(Red(result, p),
                        (GraySum(imageData, p, 1, -1) + 2 * GraySum(imageData, p, 1, 0)
                            + GraySum(imageData, p, 1, 1))
                        - (GraySum(imageData, p, -1, -1) + 2 * GraySum(imageData, p, -1, 0)
                            + GraySum(imageData, p, -1, 1)),
                        (GraySum(imageData, p, -1, 1) + 2 * GraySum(imageData, p, 0, 1)
                            + GraySum(imageData, p, 1, 1))
                        - (GraySum(imageData, p, -1, -1) + 2 * GraySum(imageData, p, 0, -1)
                            + GraySum(imageData, p, 1, -1)))

\* an output with a clamped magnitude, a magnitude strictly between 0 and 255 and
\* a zero magnitude inside, and its all-zero border
C8_Witness ==
    /\ calls = <<"detectEdges">>
    /\ \E p, q, r \in Pixels(result) :
          /\ ~OnBorder(result, p) /\ Red(result, p) = 255
          /\ ~OnBorder(result, q) /\ Red(result, q) \in 1 .. 254
          /\ ~OnBorder(result, r) /\ Red(result, r) = 0 /\ Alpha(result, r) = 255
    /\ Alpha(result, 0) = 0

----------------------------------------------------------------------------
(* Vocabulary of the radial mask: for pixel p, FromCentre is the square of *)
(* twice its distance from the image centre and Diagonal the square of     *)
(* twice the centre-to-corner distance, so d = sqrt(FromCentre/Diagonal).  *)

FromCentre(img, p) ==
    (2 * Column(img, p) - img.width) * (2 * Column(img, p) - img.width)
        + (2 * Row(img, p) - img.height) * (2 * Row(img, p) - img.height)

Diagonal(img) == img.width * img.width + img.height * img.height

\* a is max(0, 255 * (1 - (d - 0.6) / 0.4)) = 637.5 * (1 - d) to the nearest
\* whole number: 1274 - 2a <= 1275 * d <= 1276 - 2a
NearestToFade(a, P, Q) ==
    /\ a \in 0 .. 255
    /\ LeqProducts(1275 * P, 1275, (1276 - 2 * a) * Q, 1276 - 2 * a)
    /\ LeqProducts((1274 - 2 * a) * Q, 1274 - 2 * a, 1275 * P, 1275)

\* a is the radial alpha of pixel p: 255 up to d = 0.6, the fade beyond
RadialValue(img, p, a) ==
    IF 25 * FromCentre(img, p) <= 9 * Diagonal(img)
    THEN a = 255
    ELSE NearestToFade(a, FromCentre(img, p), Diagonal(img))

\* pixel p is one the code's edge-proximity rule leaves alone
NotEdgePixel(img, p) ==
    /\ 10 <= Column(img, p) /\ Column(img, p) <= img.width - 10
    /\ 10 <= Row(img, p) /\ Row(img, p) <= img.height - 10

\* pixel p is in the 10 leftmost or rightmost columns or the 10 top or bottom rows
InTenPixelBand(img, p) ==
    \/ Column(img, p) < 10 \/ Column(img, p) >= img.width - 10
    \/ Row(img, p) < 10 \/ Row(img, p) >= img.height - 10

AfterSimple == calls = <<"processImageSimple">>

(* C9: in processImageSimple every pixel the edge-proximity rule leaves    *)
(* alone gets alpha 255 when d <= 0.6 and max(0, 255*(1-(d-0.6)/0.4)) as a *)
(* byte (the nearest whole number) when d > 0.6; the centre pixel gets     *)
(* 255, the pixel at d = 1.0 gets 0, and alpha never increases with d.     *)
C9_RadialFade ==
    AfterSimple =>
        /\ \A p \in Pixels(result) :
              NotEdgePixel(result, p) => RadialValue(result, p, Alpha(result, p))
        /\ LET centre == (result.height \div 2) * result.width + result.width \div 2
           IN  NotEdgePixel(result, centre) /\ Alpha(result, centre) = 255
        /\ \A p \in Pixels(result) :
              FromCentre(result, p) = Diagonal(result) => Alpha(result, p) = 0
        /\ \A s, t \in {<<FromCentre(result, p), Alpha(result, p)>> :
                            p \in {r \in Pixels(result) : NotEdgePixel(result, r)}} :
              s[1] <= t[1] => s[2] >= t[2]

\* a mask with, outside the edge bands, a pixel at 255 beside the centre, a
\* faded pixel above 50 and two pixels of different faded alphas
C9_Witness ==
    /\ AfterSimple
    /\ \E p, q \in Pixels(result) :
          /\ NotEdgePixel(result, p) /\ NotEdgePixel(result, q)
          /\ 25 * FromCentre(result, p) > 9 * Diagonal(result)
          /\ Alpha(result, p) \in 51 .. 254
          /\ Alpha(result, q) < Alpha(result, p)
    /\ Alpha(result, 0) = 0

(* C10 as stated: every pixel in the 10 leftmost or 10 rightmost columns   *)
(* or the 10 topmost or 10 bottommost rows ends with alpha <= 50, and      *)
(* every pixel outside those bands keeps its radial alpha.                 *)
C10_TenPixelBands ==
    AfterSimple =>
        \A p \in Pixels(result) :
            IF InTenPixelBand(result, p)
            THEN Alpha(result, p) <= 50
            ELSE RadialValue(result, p, Alpha(result, p))

----------------------------------------------------------------------------
\* the opaque white image of the size of img
Blank(img) == Decode(img.width, img.height, [p \in 0 .. img.width * img.height - 1 |-> White])

(* C11: the alpha processImageSimple writes does not depend on the pixels' *)
(* colour or input alpha: at every position it is the alpha the same loop  *)
(* writes for the opaque white image of the same width and height (any two *)
(* images of one size thus get the same alpha), and R, G, B of every pixel *)
(* are the input's.                                                        *)
C11_AlphaFromSizeOnly ==
    AfterSimple =>
        /\ SameRGB(result, imageData)
        /\ \E up \in SUBSET HalfWayValues(result.width, result.height) :
              \A p \in Pixels(result) :
                  Alpha(result, p) = Alpha(simpleMask(Blank(imageData), up), p)

\* a processed image that is not the white one, had input alphas 0 and 1, and
\* got a faded alpha at a pixel whose input alpha was 0
C11_Witness ==
    /\ AfterSimple
    /\ imageData # Blank(imageData)
    /\ \E p, q \in Pixels(imageData) :
          /\ Alpha(imageData, p) = 0 /\ Alpha(imageData, q) = 1
          /\ RawColor(imageData, p) # RawColor(imageData, q)
          /\ Alpha(result, p) \in 51 .. 254

----------------------------------------------------------------------------
(* Vocabulary of the calls on the instance.                                *)

\* the PNG of an ImageData
Encoded(img) ==
    [mime |-> "image/png", width |-> img.width, height |-> img.height,
     pixels |-> [q \in 0 .. img.width * img.height - 1 |-> Samples(img, q)]]

\* the picture after the three stages of the pipeline
FullyProcessed(img) == refineEdges(morphologicalOperations(colorSegmentation(img)))

\* the data URL is the PNG of the completely processed picture of the call
CompleteResult(call) ==
    IF call.method = "processImage"
    THEN call.value = Encoded(FullyProcessed(call.src.bitmap))
    ELSE \E up \in SUBSET HalfWayValues(call.src.bitmap.width, call.src.bitmap.height) :
            call.value = Encoded(simpleMask(call.src.bitmap, up))

\* the promise of a call is pending until the img fired its event, then
\* rejected when the image did not load or a stage threw, else fulfilled
SettledAsItShould(call) ==
    /\ call.settled = (IF call.img = "loading" THEN 0 ELSE 1)
    /\ call.state = (IF call.img = "loading" THEN "pending"
                     ELSE IF call.img = "broken" \/ Thrown(call.src.bitmap) THEN "rejected"
                     ELSE "fulfilled")
    /\ call.img = "broken" <=> (call.img # "loading" /\ ~call.src.loads)
    /\ call.state = "fulfilled" => CompleteResult(call)

(* C12: every processImage / processImageSimple call settles its promise   *)
(* exactly once: the promise is pending only until the img fires its one   *)
(* load or error event, whose handler calls resolve or reject once; the    *)
(* call is rejected when the image failed to load or a stage threw, and    *)
(* otherwise fulfilled with the PNG data URL of the completely processed   *)
(* image; a settled call never changes again (no retry of the load, no     *)
(* resolve after a reject).                                                *)
C12_SettlesOnce ==
    /\ [](\A c \in DOMAIN promises : SettledAsItShould(promises[c]))
    /\ [][\A c \in DOMAIN promises :
            promises[c].state # "pending" => promises'[c] = promises[c]]_vars

\* a call rejected for an image that did not load beside a call fulfilled
\* with a mask that is neither all transparent nor all opaque
C12_Witness ==
    \E c, d \in DOMAIN promises :
        /\ promises[c].state = "rejected" /\ promises[c].img = "broken"
        /\ promises[d].state = "fulfilled" /\ promises[d].method = "processImage"
        /\ \E p, q \in DOMAIN promises[d].value.pixels :
              /\ promises[d].value.pixels[p][4] = 0
              /\ promises[d].value.pixels[q][4] \in 1 .. 254

\* the names of the stages of a trace
Stages(trace) == [i \in 1 .. Len(trace) |-> trace[i].stage]

(* C13: in every fulfilled processImage call the stages ran once each in   *)
(* the order decode, colorSegmentation, morphologicalOperations,           *)
(* refineEdges, encode; decode read the loaded image, every later stage    *)
(* got the output of the stage before it, and the data URL encodes the     *)
(* output of refineEdges; detectEdges is not a stage and no stage was      *)
(* given the edge map of the decoded image.                                *)
C13_StagesInOrder ==
    \A c \in DOMAIN promises :
        (promises[c].method = "processImage" /\ promises[c].state = "fulfilled") =>
            LET t == promises[c].trace
            IN  /\ Stages(t) = <<"decode", "colorSegmentation", "morphologicalOperations",
                                 "refineEdges", "encode">>
                /\ t[1].input = promises[c].src.bitmap
                /\ \A i \in 2 .. 5 : t[i].input = t[i - 1].output
                /\ t[2].output = colorSegmentation(t[2].input)
                /\ t[3].output = morphologicalOperations(t[3].input)
                /\ t[4].output = refineEdges(t[4].input)
                /\ promises[c].value = Encoded(t[4].output)
                /\ LET edges == detectEdges(t[1].output)
                   IN  \A i \in 2 .. 5 : t[i].input # edges

\* a call whose segmenter and blur changed their input beside a call whose
\* opening changed its input
C13_Witness ==
    \E c, d \in DOMAIN promises :
        /\ promises[c].method = "processImage" /\ promises[c].state = "fulfilled"
        /\ promises[d].method = "processImage" /\ promises[d].state = "fulfilled"
        /\ promises[c].trace[2].output # promises[c].trace[2].input
        /\ promises[c].trace[4].output # promises[c].trace[4].input
        /\ \E p \in Pixels(promises[d].trace[3].input) :
              Alpha(promises[d].trace[3].input, p) = 255
        /\ \A p \in Pixels(promises[d].trace[3].output) :
              Alpha(promises[d].trace[3].output, p) = 0

----------------------------------------------------------------------------
(* Vocabulary of the mask filters.                                         *)

AfterOpening == calls = <<"morphologicalOperations">>

AfterBlur == calls = <<"refineEdges">>

\* the pixels of img other than p at most n columns and n rows from p
Near(img, p, n) ==
    {q \in Pixels(img) \ {p} :
        /\ Column(img, q) - Column(img, p) \in -n .. n
        /\ Row(img, q) - Row(img, p) \in -n .. n}

(* C15 as stated: morphologicalOperations returns every pixel of row 0,    *)
(* the last row, column 0 and the last column with its input alpha, and    *)
(* every pixel with its input R, G and B.                                  *)
C15_BorderAlphaKept ==
    AfterOpening =>
        /\ SameRGB(result, imageData)
        /\ \A p \in Pixels(imageData) :
              OnBorder(imageData, p) => Alpha(result, p) = Alpha(imageData, p)

\* p is an isolated background speck inside the foreground: off the border,
\* alpha 0, every other pixel within 2 of it off the border with alpha 255
IsolatedSpeck(img, p) ==
    /\ ~OnBorder(img, p)
    /\ Alpha(img, p) = 0
    /\ Cardinality(Near(img, p, 2)) = 24
    /\ \A q \in Near(img, p, 2) : ~OnBorder(img, q) /\ Alpha(img, q) = 255

(* C16 as stated: an isolated 1-pixel background speck inside the          *)
(* foreground comes out of morphologicalOperations with alpha 255.         *)
C16_AsStated ==
    AfterOpening =>
        \A p \in Pixels(imageData) :
            IsolatedSpeck(imageData, p) => Alpha(result, p) = 255

(* C16, amended: morphologicalOperations keeps an isolated 1-pixel         *)
(* background speck inside the foreground: its output alpha is 0.  What    *)
(* the opening removes is the isolated foreground pixel: a pixel off the   *)
(* border whose 8 neighbours have alpha 0 comes out with alpha 0.          *)
C16_SpeckKept ==
    AfterOpening =>
        \A p \in Pixels(imageData) :
            /\ IsolatedSpeck(imageData, p) => Alpha(result, p) = 0
            /\ (~OnBorder(imageData, p) /\ \A q \in Near(imageData, p, 1) : Alpha(imageData, q) = 0)
                  => Alpha(result, p) = 0

\* an opened mask that had an isolated background speck, which is still there
\* in a foreground that is still there
C16_Witness ==
    /\ AfterOpening
    /\ \E p \in Pixels(imageData) :
          /\ IsolatedSpeck(imageData, p)
          /\ Alpha(result, p) = 0
          /\ \E q \in Pixels(result) : Alpha(result, q) = 255

\* the alpha refineEdges is to give pixel p: the weighted mean of the alpha
\* of img over the taps around p, to the nearest whole number
BlurredAlpha(img, p) ==
    RoundedQuotient(alphaSum(img, p, blurTaps), weightSum(blurTaps))

(* C17: refineEdges returns every pixel with its input R, G and B, every   *)
(* pixel within 2 pixels of an image edge with its input alpha, and every  *)
(* other pixel with the weighted mean of the INPUT alpha around it (no     *)
(* value already blurred is read).                                         *)
C17_OnlyInteriorAlpha ==
    AfterBlur =>
        /\ SameRGB(result, imageData)
        /\ \A p \in Pixels(imageData) :
              IF Processed(imageData, p)
              THEN Alpha(result, p) = BlurredAlpha(imageData, p)
              ELSE Alpha(result, p) = Alpha(imageData, p)

\* two blurred pixels side by side, both changed, beside a pixel of the margin
\* whose alpha differs from theirs and was kept
C17_Witness ==
    /\ AfterBlur
    /\ \E p, q \in Pixels(imageData) :
          /\ Processed(imageData, p) /\ Processed(imageData, q) /\ q = p + 1
          /\ Alpha(result, p) # Alpha(imageData, p)
          /\ Alpha(result, q) # Alpha(imageData, q)
    /\ \E r \in Pixels(imageData) :
          /\ ~Processed(imageData, r)
          /\ Alpha(imageData, r) = 128 /\ Alpha(result, r) = 128

----------------------------------------------------------------------------
(* Vocabulary of the App.                                                  *)

\* the step ends a run of processImageWithPhotoroom
RunEnds == Len(requests') < Len(requests)

\* the step is the failure of the API call of run i
ApiFails(i) ==
    /\ i \in DOMAIN requests
    /\ requests[i].at = "api"
    /\ requests' = Without(requests, i)

(* C18: every run of processImageWithPhotoroom ends with isProcessing =    *)
(* false and processingStep = ''; when its API call fails (the request     *)
(* fails or the response is not OK; removeBackground then throws and never *)
(* returns a URL) the run ends there with one alert, processedImage and    *)
(* uploadedImage unchanged; no other step raises an alert.                 *)
C18_RunEndsIdle ==
    [][/\ RunEnds => (~ui'.isProcessing /\ ui'.processingStep = "")
       /\ \A i \in DOMAIN requests :
             requests[i].at = "api" =>
                 \A reply \in Replies(FileOfDataUrl(requests[i].uploadedImage)) :
                     (~reply.arrived \/ ~reply.ok) =>
                         removeBackgroundFromDataUrl(requests[i].uploadedImage, reply).thrown
       /\ (\E i \in DOMAIN requests : ApiFails(i)) =>
              /\ ui'.alerts = ui.alerts + 1
              /\ ui'.processedImage = ui.processedImage
              /\ ui'.uploadedImage = ui.uploadedImage
       /\ ui'.alerts # ui.alerts => \E i \in DOMAIN requests : ApiFails(i)
       /\ \A i \in DOMAIN requests :
             (requests[i].at = "api" /\ i \in DOMAIN requests'
                 /\ requests'[i].at = "finalizing" /\ Len(requests') = Len(requests)) =>
                    requests'[i].processedDataUrl
                        = "blob:cutout-" \o FileOfDataUrl(requests[i].uploadedImage).content
      ]_vars

\* after a run that failed and a run that succeeded: one alert, a result for
\* the uploaded image, nothing in flight
C18_Witness ==
    /\ ui.alerts = 1
    /\ ui.processedImage # NoProcessedImage
    /\ ui.processedImage.original = ui.uploadedImage
    /\ requests = <<>>
    /\ ~ui.isProcessing /\ ui.processingStep = ""

(* C19 as stated: whenever processedImage is non-null, uploadedImage is    *)
(* non-null and processedImage.original is the current uploadedImage.      *)
C19_ResultOfCurrentUpload ==
    ui.processedImage # NoProcessedImage =>
        /\ ui.uploadedImage # Null
        /\ ui.processedImage.original = ui.uploadedImage

(* C20 as stated: isProcessing is true exactly when a run of               *)
(* processImageWithPhotoroom has not finished, and at most one run is in   *)
(* flight.                                                                 *)
C20_OneRunWhileProcessing ==
    /\ ui.isProcessing <=> requests # <<>>
    /\ Len(requests) <= 1

----------------------------------------------------------------------------
(* The opening against its input.                                          *)

\* the last call made was morphologicalOperations, of imageData into result
AfterAnOpening == calls # <<>> /\ calls[Len(calls)] = "morphologicalOperations"

(* C22: morphologicalOperations never increases alpha: at every pixel the  *)
(* output alpha is at most the input alpha of the call, so a pixel with    *)
(* input alpha 0 comes out with alpha 0.                                   *)
C22_AlphaNeverIncreased ==
    AfterAnOpening =>
        \A p \in Pixels(imageData) :
            /\ Alpha(result, p) <= Alpha(imageData, p)
            /\ Alpha(imageData, p) = 0 => Alpha(result, p) = 0

\* an opened mask with a background pixel off the border next to foreground,
\* still background, a foreground pixel that was kept and one that was lowered
C22_Witness ==
    /\ AfterOpening
    /\ \E p \in Pixels(imageData) :
          /\ ~OnBorder(imageData, p)
          /\ Alpha(imageData, p) = 0 /\ Alpha(result, p) = 0
          /\ \E q \in Near(imageData, p, 1) : Alpha(imageData, q) = 255
    /\ \E r \in Pixels(imageData) : Alpha(imageData, r) = 255 /\ Alpha(result, r) = 255
    /\ \E s \in Pixels(imageData) : Alpha(result, s) < Alpha(imageData, s)

----------------------------------------------------------------------------
(* Calls on one instance against the call made alone.                      *)

\* what the load handler of a call comes to on an instance just constructed,
\* where it is the first and only call
Alone(call) == processImageOnload(NewCanvas, call.src.bitmap, 1)

\* call c has settled as it would have settled alone
AsIfAlone(call) ==
    IF call.img = "broken"
    THEN call.state = "rejected" /\ call.value = [error |-> "Failed to load image"]
    ELSE \E alone \in {Alone(call)} :
            call.state = alone.state /\ call.value = alone.value

(* C21: whatever other calls were made on the instance and in whatever     *)
(* order the images loaded, a processImage call whose img has fired its    *)
(* event is settled with exactly the outcome (the data URL, or the error)  *)
(* it has as the only call on a new instance; a load handler is one step,  *)
(* which settles its own call and leaves every other call as it was.       *)
C21_AsIfOnlyCall ==
    /\ [](\A c \in DOMAIN promises :
            (promises[c].method = "processImage" /\ promises[c].img # "loading")
                => AsIfAlone(promises[c]))
    /\ [][\A c \in DOMAIN promises :
            (promises[c].img = "loading" /\ promises'[c].img = "complete") =>
                /\ promises'[c].state # "pending"
                /\ \A d \in DOMAIN promises \ {c} : promises'[d] = promises[d]]_vars

\* two processImage calls for different pictures of different widths, both
\* fulfilled with different data URLs, the one made second loaded first: the
\* canvas holds the picture of the call made first
C21_Witness ==
    /\ Len(promises) = 2
    /\ \A c \in {1, 2} : promises[c].method = "processImage" /\ promises[c].state = "fulfilled"
    /\ promises[1].src.bitmap.width # promises[2].src.bitmap.width
    /\ promises[1].value # promises[2].value
    /\ canvas.clearedBy = 1
    /\ toDataURL(canvas) = promises[1].value

====
